---- MODULE Spec2Model ----
(***************************************************************************)
(* Model of src/app.py: the exam-script grading pipeline.                  *)
(*                                                                         *)
(* Text.  A Python string is modelled as a sequence of runs [c, n]: n      *)
(* consecutive characters of class c.  The classes are                     *)
(*   "sp"  a space            "nl"  a newline (both are whitespace)        *)
(*   "p"   a prose character: not whitespace, not in GARBAGE_CHARS, and    *)
(*         not part of any marker word                                     *)
(*   "g"   a character of GARBAGE_CHARS                                    *)
(*   a marker word (any letter case, the searches are IGNORECASE), n = 1,  *)
(*         whose length in characters is WordLen(c).                       *)
(* Lengths, slices, strip() and the garbage count are computed on the      *)
(* characters the runs stand for, so the program's own constants (5, 40,   *)
(* 200, 1000, 0.3) are used unscaled.                                      *)
(*                                                                         *)
(* Scores.  A score is an integer number of tenths (45 is 4.5); round(x,1) *)
(* is Round1, computed on the exact rational x.                            *)
(***************************************************************************)
EXTENDS Integers, Sequences, FiniteSets, TLC

VARIABLES arg, ret, uploaded, results, pc, session, review_needed, excel

vars == <<arg, ret, uploaded, results, pc, session, review_needed, excel>>

\* Optional values: Python's None is the empty sequence, a present value x
\* is <<x>>.  (A cell holding "" is falsy like None and is modelled alike.)
None == <<>>

Some(x) == <<x>>

\* F applied to the value of v: a local variable assignment, v computed once.
Bind(v, F(_)) == CHOOSE r \in {F(x) : x \in {v}} : TRUE

\* None in a cell that otherwise holds a status string.
NoStatus == "None"

-----------------------------------------------------------------------------
\* CONFIGURATION (lines 14-36)

\* The keys of EXAM_QUESTIONS in order: markers = list(EXAM_QUESTIONS.keys()).
markers == <<"Q1", "Q2", "Q3">>

\* marker_text.split() of each question's marker phrase; the phrase itself is
\* these words joined by single spaces.
marker_words(q) ==
    CASE q = "Q1" -> <<"Summarize", "the", "information">>
      [] q = "Q2" -> <<"Public", "Transportation", "In", "Dhaka">>
      [] q = "Q3" -> <<"An", "increasing", "number", "of", "people", "are", "buying">>

marks(q) == CASE q = "Q1" -> 15 [] q = "Q2" -> 7 [] q = "Q3" -> 8

min_length(q) == CASE q = "Q1" -> 40 [] q = "Q2" -> 40 [] q = "Q3" -> 40

\* GARBAGE_THRESHOLD = 0.3, as the rational 3/10.
GARBAGE_THRESHOLD == <<3, 10>>

AllWords == UNION {{marker_words(markers[i])[k] : k \in 1..Len(marker_words(markers[i]))} : i \in 1..3}

\* len(word) for each marker word.
WordLen(w) ==
    CASE w = "Summarize" -> 9 [] w = "the" -> 3 [] w = "information" -> 11
      [] w = "Public" -> 6 [] w = "Transportation" -> 14 [] w = "In" -> 2
      [] w = "Dhaka" -> 5 [] w = "An" -> 2 [] w = "increasing" -> 10
      [] w = "number" -> 6 [] w = "of" -> 2 [] w = "people" -> 6
      [] w = "are" -> 3 [] w = "buying" -> 6

-----------------------------------------------------------------------------
\* Strings as sequences of runs

Run(c, n) == [c |-> c, n |-> n]

IsWs(r) == r.c \in {"sp", "nl"}

IsWord(r) == r.c \in AllWords

\* Number of characters a run stands for.
Width(r) == IF IsWord(r) THEN r.n * WordLen(r.c) ELSE r.n

RECURSIVE TextLen(_)
\* len(text)
TextLen(t) == IF t = <<>> THEN 0 ELSE Width(Head(t)) + TextLen(Tail(t))

RECURSIVE GarbageCount(_)
\* sum(1 for char in text if char in GARBAGE_CHARS)
GarbageCount(t) ==
    IF t = <<>> THEN 0
    ELSE (IF Head(t).c = "g" THEN Head(t).n ELSE 0) + GarbageCount(Tail(t))

\* The first k characters of run r (k < Width(r)): part of a marker word is
\* no longer that word, only letters.
CutRun(r, k) == IF IsWord(r) THEN Run("p", k) ELSE Run(r.c, k)

\* The characters of run r after its first k (k < Width(r)).
RestRun(r, k) == IF IsWord(r) THEN Run("p", Width(r) - k) ELSE Run(r.c, r.n - k)

RECURSIVE TakeChars(_, _)
\* text[:k]
TakeChars(t, k) ==
    IF k <= 0 \/ t = <<>> THEN <<>>
    ELSE IF Width(Head(t)) <= k
         THEN <<Head(t)>> \o TakeChars(Tail(t), k - Width(Head(t)))
         ELSE <<CutRun(Head(t), k)>>

RECURSIVE DropChars(_, _)
\* text[k:]
DropChars(t, k) ==
    IF t = <<>> THEN <<>>
    ELSE IF k <= 0 THEN t
    ELSE IF Width(Head(t)) <= k THEN DropChars(Tail(t), k - Width(Head(t)))
    ELSE <<RestRun(Head(t), k)>> \o Tail(t)

\* text[a:b]
Slice(t, a, b) == TakeChars(DropChars(t, a), b - a)

RECURSIVE LStrip(_)
LStrip(t) == IF t # <<>> /\ IsWs(Head(t)) THEN LStrip(Tail(t)) ELSE t

RECURSIVE RStrip(_)
RStrip(t) ==
    IF t # <<>> /\ IsWs(t[Len(t)]) THEN RStrip(SubSeq(t, 1, Len(t) - 1)) ELSE t

\* text.strip()
Strip(t) == RStrip(LStrip(t))

\* Character offset of the end of run i (0 for i = 0).
Offset(t, i) == TextLen(SubSeq(t, 1, i))

Min(a, b) == IF a < b THEN a ELSE b

-----------------------------------------------------------------------------
\* re.search on run sequences.  A match is [s, e], the character offsets of
\* its start and its end; NoMatch when the search fails.  Every pattern of
\* find_answer_by_marker starts and ends with a marker word.

NoMatch == [s |-> -1, e |-> -1]

Least(S) == CHOOSE x \in S : \A y \in S : x <= y

\* The literal phrase (re.escape(marker_text)) at run i: the words separated
\* by exactly one space each.
ExactAt(t, words, i) ==
    /\ i + 2 * (Len(words) - 1) <= Len(t)
    /\ \A k \in 1..Len(words) :
          /\ t[i + 2 * (k - 1)] = Run(words[k], 1)
          /\ k > 1 => t[i + 2 * (k - 1) - 1] = Run("sp", 1)

\* re.search(re.escape(phrase), text): the leftmost occurrence.
SearchExact(t, words) ==
    Bind({i \in 1..Len(t) : ExactAt(t, words, i)},
         LAMBDA hits :
            IF hits = {} THEN NoMatch
            ELSE [s |-> Offset(t, Least(hits) - 1),
                  e |-> Offset(t, Least(hits) + 2 * (Len(words) - 1))])

\* Index of the first run at or after i that is not whitespace (Len(t)+1 if none).
SkipWs(t, i) ==
    Bind({j \in i..Len(t) : ~IsWs(t[j])},
         LAMBDA stops : IF stops = {} THEN Len(t) + 1 ELSE Least(stops))

RECURSIVE SpacedEnd(_, _, _, _)
\* End run of words[k..] separated by \s+ when words[k] is at run i; 0 if none.
SpacedEnd(t, words, k, i) ==
    IF i > Len(t) \/ t[i] # Run(words[k], 1) THEN 0
    ELSE IF k = Len(words) THEN i
    ELSE IF SkipWs(t, i + 1) = i + 1 THEN 0
    ELSE SpacedEnd(t, words, k + 1, SkipWs(t, i + 1))

\* re.search(marker_text.replace(' ', '\s+'), text)
SearchSpaced(t, words) ==
    Bind({i \in 1..Len(t) : SpacedEnd(t, words, 1, i) # 0},
         LAMBDA hits :
            IF hits = {} THEN NoMatch
            ELSE [s |-> Offset(t, Least(hits) - 1),
                  e |-> Offset(t, SpacedEnd(t, words, 1, Least(hits)))])

\* Offsets at which word w occurs, ignoring case, inside a run of class c: at
\* its start when c is that word, and inside the four marker words that
\* contain another one ("In" and "An" can match in the middle of a word,
\* since the patterns have no word boundaries).
Occ(w, c) ==
    IF c = w THEN {0}
    ELSE IF w = "In" /\ c = "information" THEN {0}
    ELSE IF w = "In" /\ c = "increasing" THEN {0, 7}
    ELSE IF w = "In" /\ c = "buying" THEN {3}
    ELSE IF w = "An" /\ c = "Transportation" THEN {2}
    ELSE {}

\* Character offset of the first occurrence of word w at or after offset
\* `from`; -1 if none.
FirstWord(t, w, from) ==
    Bind(UNION {{Offset(t, j - 1) + o : o \in Occ(w, t[j].c)} : j \in 1..Len(t)},
         LAMBDA all :
            IF {x \in all : x >= from} = {} THEN -1
            ELSE Least({x \in all : x >= from}))

RECURSIVE ChainEnd(_, _, _, _)
\* End offset of words[k..] joined by the lazy '.*?' (DOTALL), searched from
\* offset `from` on: each word at its first occurrence after the previous
\* one; -1 if none.
ChainEnd(t, words, k, from) ==
    Bind(FirstWord(t, words[k], from),
         LAMBDA at :
            IF at < 0 THEN -1
            ELSE IF k = Len(words) THEN at + WordLen(words[k])
            ELSE ChainEnd(t, words, k + 1, at + WordLen(words[k])))

\* re.search('.*?'.join(words), text, DOTALL): the match starts at the first
\* occurrence of the first word, if the rest of the chain follows it at all.
SearchChain(t, words) ==
    Bind(ChainEnd(t, words, 1, 0),
         LAMBDA e : IF e < 0 THEN NoMatch
                    ELSE [s |-> FirstWord(t, words[1], 0), e |-> e])

\* words[:3]
First3(words) == SubSeq(words, 1, Min(3, Len(words)))

-----------------------------------------------------------------------------
\* find_answer_by_marker (lines 110-164)

\* Lines 114-132: the three marker variations in order, then the key-word
\* fallback on the first three words.
MarkerMatch(t, words) ==
    Bind(SearchExact(t, words), LAMBDA m1 :
      IF m1 # NoMatch THEN m1
      ELSE Bind(SearchSpaced(t, words), LAMBDA m2 :
        IF m2 # NoMatch THEN m2
        ELSE Bind(SearchChain(t, words), LAMBDA m3 :
          IF m3 # NoMatch THEN m3
          ELSE IF Len(First3(words)) >= 2 THEN SearchChain(t, First3(words))
          ELSE NoMatch)))

\* Lines 140-159: the end position of the span that starts at start_pos.
EndPosNoCap(t, start_pos, next_words) ==
    TextLen(t)

\* Lines 146-156: the two variations of the next marker, searched in `rest`,
\* the text from start_pos on.
NextStart(rest, next_words) ==
    Bind(SearchExact(rest, next_words), LAMBDA n1 :
      IF n1 # NoMatch THEN n1.s
      ELSE Bind(SearchChain(rest, First3(next_words)), LAMBDA n2 :
        IF n2 # NoMatch THEN n2.s ELSE TextLen(rest)))

EndPos(t, start_pos, next_words) ==
    IF next_words # None
    THEN start_pos + NextStart(DropChars(t, start_pos), next_words)
    ELSE Min(start_pos + 1000, TextLen(t))

\* Line 162: answer if answer and len(answer) > 5 else None
KeepAnswerLoose(answer) ==
    IF answer # <<>> /\ TextLen(answer) >= 5 THEN Some(answer) ELSE None

KeepAnswer(answer) ==
    IF answer # <<>> /\ TextLen(answer) > 5 THEN Some(answer) ELSE None

\* Lines 137-162: the answer when the marker's match ends at start_pos.
AnswerFrom(full_text, start_pos, next_words) ==
    KeepAnswer(Strip(Slice(full_text, start_pos,
                           EndPos(full_text, start_pos, next_words))))

find_answer_by_marker(full_text, words, next_words) ==
    Bind(MarkerMatch(full_text, words),
         LAMBDA match :
            IF match = NoMatch THEN None
            ELSE AnswerFrom(full_text, match.e, next_words))

-----------------------------------------------------------------------------
\* Quality Assessor (lines 166-185)

\* calculate_garbage_ratio: garbage_count / len(text) as the rational
\* <<numerator, denominator>>; 0 for an empty text.
calculate_garbage_ratio(text) ==
    IF text = <<>> THEN <<0, 1>> ELSE <<GarbageCount(text), TextLen(text)>>

\* a > b on rationals with positive denominators.  The program compares the
\* binary64 quotient with the binary64 0.3: both are the double nearest to the
\* exact value, and a quotient count/len that differs from 3/10 differs by at
\* least 1/(10 len), far more than a rounding error, so the comparison of
\* doubles and the comparison of rationals agree.
RatGreaterEq(a, b) == a[1] * b[2] >= b[1] * a[2]

RatGreater(a, b) == a[1] * b[2] > b[1] * a[2]

assess_ocr_quality(answer_text, min_len) ==
    IF answer_text = None THEN <<"UNREADABLE", "MISSING_TEXT">>
    ELSE IF TextLen(answer_text[1]) < min_len THEN <<"TOO_SHORT", "LENGTH_CHECK">>
    ELSE IF RatGreater(calculate_garbage_ratio(answer_text[1]), GARBAGE_THRESHOLD)
         THEN <<"SUSPECT_OCR", "HIGH_GARBAGE">>
    ELSE <<"OK", "PASS">>

-----------------------------------------------------------------------------
\* Heuristic Grader (lines 187-206)

\* round(num/den, 1) in tenths, for num >= 0 and den > 0; `up` says which way
\* an exact tie (x.x5) goes.
Round1(num, den, up) ==
    LET q == (10 * num) \div den
        r == (10 * num) % den
    IN  IF 2 * r > den \/ (2 * r = den /\ up) THEN q + 1 ELSE q

\* The (max_marks, len) pairs at which max_marks * (0.5 + 0.5 * len/200) is an
\* exact tie x.x5 and the binary64 product lies above it, so round() goes up;
\* at the other ties it lies on or below and round() goes down.
FloatTiesUp ==
    {<<15, 44>>, <<15, 60>>, <<15, 68>>, <<15, 108>>, <<15, 116>>, <<15, 124>>,
     <<15, 132>>, <<15, 140>>, <<15, 148>>, <<7, 140>>}

dummy_grade(answer_text, max_marks, ocr_status) ==
    IF ocr_status = "UNREADABLE" THEN <<None, "UNREADABLE">>
    ELSE IF ocr_status = "TOO_SHORT"
         THEN <<Some(Round1(max_marks * 3, 10, FALSE)), "AUTO_LOW">>
    ELSE IF ocr_status = "SUSPECT_OCR"
         THEN <<Some(Round1(max_marks * 6, 10, FALSE)), "AUTO_MEDIUM">>
    ELSE IF answer_text # None /\ answer_text[1] # <<>>
         THEN LET len == TextLen(answer_text[1])
                  \* 0.5 + 0.5 * min(len/200, 1.0) = (200 + min(len, 200)) / 400
              IN  <<Some(Round1(max_marks * (200 + Min(len, 200)), 400,
                                <<max_marks, len>> \in FloatTiesUp)), "AUTO_HIGH">>
    ELSE <<None, "NO_ANSWER">>

-----------------------------------------------------------------------------
\* Identity Extractor (lines 55-108)
\*
\* A page image is modelled by what the recognizer and the patterns make of
\* its top quarter: [raises, names, regs].  names[i] is the outcome of name
\* pattern i: None when re.search fails, else <<n>>, n the length of the
\* capture after strip() and re.sub (lines 76-78); regs[i] likewise, n the
\* number of digits captured.  A returned string is the record [pat, len] of
\* the pattern that captured it and its length.

Str(pat, len) == [pat |-> pat, len |-> len]

\* Python truthiness of an optional string.
Truthy(x) == x # None /\ x[1].len > 0

RECURSIVE NameLoop(_, _, _)
\* Lines 73-80, from pattern i on, with `name` as assigned so far.
NameLoop(outs, i, name) ==
    IF i > Len(outs) THEN name
    ELSE IF outs[i] # None
         THEN IF outs[i][1] > 3 THEN Some(Str(i, outs[i][1]))
              ELSE NameLoop(outs, i + 1, Some(Str(i, outs[i][1])))
    ELSE NameLoop(outs, i + 1, name)

RECURSIVE RegLoop(_, _, _)
\* Lines 91-96, from pattern i on, with `reg` as assigned so far.
RegLoop(outs, i, reg) ==
    IF i > Len(outs) THEN reg
    ELSE IF outs[i] # None
         THEN IF outs[i][1] >= 4 THEN Some(Str(i, outs[i][1]))
              ELSE RegLoop(outs, i + 1, Some(Str(i, outs[i][1])))
    ELSE RegLoop(outs, i + 1, reg)

\* Lines 98-104.
IdStatus(name, reg) ==
    IF Truthy(name) /\ Truthy(reg) THEN "OK"
    ELSE IF Truthy(name) \/ Truthy(reg) THEN "PARTIAL"
    ELSE "NEEDS_MANUAL_FIX"

extract_name_reg_from_top(first_page_img) ==
    IF first_page_img = None
    THEN [name |-> None, reg |-> None, status |-> "NO_IMAGE"]
    ELSE LET img == first_page_img[1]
         IN  IF img.raises
             THEN [name |-> None, reg |-> None, status |-> "ERROR"]
             ELSE LET name == NameLoop(img.names, 1, None)
                      reg  == RegLoop(img.regs, 1, None)
                  IN  [name |-> name, reg |-> reg, status |-> IdStatus(name, reg)]

-----------------------------------------------------------------------------
\* Transcription (lines 42-53)
\*
\* A PDF is [corrupt, pages]: `corrupt` when convert_from_bytes or the
\* recognizer raises; a page is [text, top], the recognizer's text of the page
\* and the image of the page as the Identity Extractor sees it.

\* "\n\n=== PAGE BREAK ===\n\n"
PAGE_BREAK ==
    <<Run("nl", 2), Run("p", 3), Run("sp", 1), Run("p", 4), Run("sp", 1),
      Run("p", 5), Run("sp", 1), Run("p", 3), Run("nl", 2)>>

RECURSIVE FullText(_)
\* Lines 46-50: every page's text followed by the page break.
FullText(pages) ==
    IF pages = <<>> THEN <<>>
    ELSE Head(pages).text \o PAGE_BREAK \o FullText(Tail(pages))

extract_text_from_pdf(pdf) ==
    IF pdf.corrupt THEN [text |-> None, img |-> None]
    ELSE [text |-> Some(FullText(pdf.pages)),
          img  |-> IF pdf.pages # <<>> THEN Some(pdf.pages[1].top) ELSE None]

-----------------------------------------------------------------------------
\* Script Pipeline (lines 212-294)

\* The literal "UNKNOWN" of lines 237-238.
UNKNOWN == Str(0, 7)

\* Lines 248-259: segment, assess and grade question i of the transcript.
Answer(full_text, i) ==
    find_answer_by_marker(full_text, marker_words(markers[i]),
                          IF i + 1 <= Len(markers) THEN marker_words(markers[i + 1])
                          ELSE None)

\* Line 275.
AiFlagInverted(ocr_status) == IF ocr_status = "OK" THEN "NEEDS_REVIEW" ELSE "OK"

AiFlag(ocr_status) == IF ocr_status # "OK" THEN "NEEDS_REVIEW" ELSE "OK"

\* Lines 270-271: score if score else "".
Cell(score) == IF score # None /\ score[1] # 0 THEN score ELSE None

\* Lines 252-259: what the loop computes for question i before storing it.
Graded(full_text, i) ==
    Bind(Answer(full_text, i),
         LAMBDA answer_text :
            Bind(assess_ocr_quality(answer_text, min_length(markers[i])),
                 LAMBDA quality :
                    [q       |-> markers[i],
                     quality |-> quality,
                     grade   |-> dummy_grade(answer_text, marks(markers[i]),
                                             quality[1])]))

RECURSIVE Passes(_, _)
\* Lines 248-259 for questions i.. in order.
Passes(full_text, i) ==
    IF i > Len(markers) THEN <<>>
    ELSE <<Graded(full_text, i)>> \o Passes(full_text, i + 1)

\* Lines 269-275: the six fields stored for one question.
QuestionResult(g) ==
    [final_score |-> Cell(g.grade[1]),
     ai_score    |-> Cell(g.grade[1]),
     ocr_status  |-> g.quality[1],
     ocr_flag    |-> g.quality[2],
     ai_status   |-> g.grade[2],
     ai_flag     |-> AiFlag(g.quality[1])]

\* Lines 245-247, 264-267 and 281-290 on the stored verdicts.  all_unreadable
\* stays True and some_readable stays False exactly while every verdict is
\* UNREADABLE.
\* The disposition with the test of line 265 inverted.
ScriptStatusInvertedTracking(qs) ==
    LET all_unreadable == \A q \in DOMAIN qs : qs[q].ocr_status # "UNREADABLE"
        some_readable  == \E q \in DOMAIN qs : qs[q].ocr_status = "UNREADABLE"
    IN  IF all_unreadable THEN "FULL_MANUAL"
        ELSE IF ~some_readable THEN "FULL_MANUAL"
        ELSE IF \E q \in DOMAIN qs :
                   qs[q].ocr_status \in {"UNREADABLE", "TOO_SHORT", "SUSPECT_OCR"}
             THEN "PARTIAL_MANUAL"
        ELSE "AUTO_COMPLETE"

\* The disposition without the readability tracking of lines 264-267.
ScriptStatusNoTracking(qs) ==
    IF \E q \in DOMAIN qs :
          qs[q].ocr_status \in {"UNREADABLE", "TOO_SHORT", "SUSPECT_OCR"}
    THEN "PARTIAL_MANUAL"
    ELSE "AUTO_COMPLETE"

ScriptStatus(qs) ==
    LET all_unreadable == \A q \in DOMAIN qs : qs[q].ocr_status = "UNREADABLE"
        some_readable  == \E q \in DOMAIN qs : qs[q].ocr_status # "UNREADABLE"
    IN  IF all_unreadable THEN "FULL_MANUAL"
        ELSE IF ~some_readable THEN "FULL_MANUAL"
        ELSE IF \E q \in DOMAIN qs :
                   qs[q].ocr_status \in {"UNREADABLE", "TOO_SHORT", "SUSPECT_OCR"}
             THEN "PARTIAL_MANUAL"
        ELSE "AUTO_COMPLETE"

RECURSIVE TotalFrom(_, _)
\* Lines 277-279 over passes i..: total_score += final_score if final_score.
TotalFrom(passes, i) ==
    IF i > Len(passes) THEN 0
    ELSE (IF passes[i].grade[1] # None /\ passes[i].grade[1][1] # 0
          THEN passes[i].grade[1][1] ELSE 0)
         + TotalFrom(passes, i + 1)

RECURSIVE TotalOkFrom(_, _)
TotalOkFrom(passes, i) ==
    IF i > Len(passes) THEN 0
    ELSE (IF passes[i].quality[1] = "OK" THEN passes[i].grade[1][1] ELSE 0)
         + TotalOkFrom(passes, i + 1)

\* The accumulation with the AUTO_LOW and AUTO_MEDIUM scores left out.
TotalOkOnly(passes) == Round1(TotalOkFrom(passes, 1), 10, FALSE)

\* Lines 277-279 and 292: the accumulated total, rounded to one decimal.
TotalScore(passes) == Round1(TotalFrom(passes, 1), 10, FALSE)

\* Lines 233-239 and 281-294: the result built from the identity and the
\* passes of the loop.
BuildResult(script_name, id, passes) ==
    Bind([i \in 1..Len(passes) |-> QuestionResult(passes[i])],
         LAMBDA cells :
            Bind([q \in {passes[i].q : i \in 1..Len(passes)} |->
                     cells[CHOOSE i \in 1..Len(passes) : passes[i].q = q]],
                 LAMBDA qs :
                    [script_name   |-> script_name,
                     name_raw      |-> id.name,
                     reg_raw       |-> id.reg,
                     name_clean    |-> IF Truthy(id.name) THEN id.name ELSE Some(UNKNOWN),
                     reg_clean     |-> IF Truthy(id.reg) THEN id.reg ELSE Some(UNKNOWN),
                     id_status     |-> id.status,
                     script_status |-> ScriptStatus(qs),
                     total_score   |-> TotalScore(passes),
                     q             |-> qs]))

\* Lines 233-294: the result for a script whose transcript is full_text.
script_result(script_name, full_text, first_page) ==
    Bind(extract_name_reg_from_top(first_page),
         LAMBDA id :
            Bind(Passes(full_text, 1),
                 LAMBDA passes : BuildResult(script_name, id, passes)))

\* Lines 214-231: the result when there is no transcript; q, the per-question
\* fields, has no key.
ErrorResultWithFields(script_name) ==
    [script_name |-> script_name, name_raw |-> None, reg_raw |-> None,
     name_clean |-> None, reg_clean |-> None, id_status |-> NoStatus,
     script_status |-> "PDF_ERROR", total_score |-> 0,
     q |-> [k \in {"Q1"} |->
               [final_score |-> None, ai_score |-> None, ocr_status |-> "UNREADABLE",
                ocr_flag |-> "MISSING_TEXT", ai_status |-> "UNREADABLE",
                ai_flag |-> "NEEDS_REVIEW"]]]

ErrorResult(script_name) ==
    [script_name |-> script_name, name_raw |-> None, reg_raw |-> None,
     name_clean |-> None, reg_clean |-> None, id_status |-> NoStatus,
     script_status |-> "PDF_ERROR", total_score |-> 0, q |-> <<>>]

process_single_script(pdf_file) ==
    LET doc == extract_text_from_pdf(pdf_file.pdf)
    IN  IF doc.text = None THEN ErrorResult(pdf_file.name)
        ELSE script_result(pdf_file.name, doc.text[1], doc.img)

-----------------------------------------------------------------------------
\* Report (lines 296-351) and the batch loop of main (lines 394-460)

\* row[f'{q}_{field}'] of the DataFrame: NaN where the script's result has no
\* such key.
RowCell(row, q, field) == IF q \in DOMAIN row.q THEN row.q[q][field] ELSE "NaN"

Issue(q, what) == [q |-> q, what |-> what]

RECURSIVE QuestionIssues(_, _)
\* Lines 322-328 for questions i.. of one row.
QuestionIssues(row, i) ==
    IF i > Len(markers) THEN <<>>
    ELSE LET st == RowCell(row, markers[i], "ocr_status")
         IN  (IF st = "UNREADABLE" THEN <<Issue(markers[i], "Unreadable")>>
              ELSE IF st = "SUSPECT_OCR" THEN <<Issue(markers[i], "Suspect OCR")>>
              ELSE IF st = "TOO_SHORT" THEN <<Issue(markers[i], "Too Short")>>
              ELSE <<>>)
             \o QuestionIssues(row, i + 1)

\* Lines 317-331 without the blank-total check of lines 330-331.
RowIssuesNoBlank(row) ==
    (IF row.id_status \in {"NEEDS_MANUAL_FIX", "PARTIAL"}
     THEN <<Issue("", "Unreadable ID")>> ELSE <<>>)
    \o QuestionIssues(row, 1)

\* Lines 317-331: the issues of one row.
RowIssues(row) ==
    (IF row.id_status \in {"NEEDS_MANUAL_FIX", "PARTIAL"}
     THEN <<Issue("", "Unreadable ID")>> ELSE <<>>)
    \o QuestionIssues(row, 1)
    \o (IF row.total_score = 0 THEN <<Issue("", "Blank final score")>> ELSE <<>>)

RECURSIVE ReviewList(_)
\* Lines 315-339: one entry per row that has issues, in row order.
ReviewList(rows) ==
    IF rows = <<>> THEN <<>>
    ELSE (IF RowIssues(Head(rows)) # <<>>
          THEN <<[script_name |-> Head(rows).script_name,
                  name_clean  |-> Head(rows).name_clean,
                  reg_clean   |-> Head(rows).reg_clean,
                  status      |-> Head(rows).script_status,
                  issues      |-> RowIssues(Head(rows))]>>
          ELSE <<>>)
         \o ReviewList(Tail(rows))

\* Lines 298-312: the DataFrame's columns are the keys of all the results;
\* df[final_cols] raises KeyError unless every question column is among them,
\* that is unless some result carries the question fields.
generate_excel(results_list) ==
    IF \A i \in 1..Len(results_list) : DOMAIN results_list[i].q = {}
    THEN [raised |-> "KeyError", marksheet |-> <<>>, review_list |-> <<>>]
    ELSE [raised |-> NoStatus, marksheet |-> results_list,
          review_list |-> ReviewList(results_list)]

RECURSIVE ReviewNeeded(_)
\* Line 449: [r for r in results if r['script_status'] != 'AUTO_COMPLETE']
ReviewNeeded(rs) ==
    IF rs = <<>> THEN <<>>
    ELSE (IF Head(rs).script_status # "AUTO_COMPLETE" THEN <<Head(rs)>> ELSE <<>>)
         \o ReviewNeeded(Tail(rs))

-----------------------------------------------------------------------------
\* Inputs

\* Longest run of padding whitespace tried around an answer.
MaxPad == 1

\* Longest run of prose or of garbage in the fragments given to the assessor.
MaxRun == 10

\* Largest min_length tried besides the configured one.
MaxMinLen == 10

\* Longest short capture of a name pattern and of an identifier pattern.
MaxNameLen == 5

MaxRegLen == 4

\* Largest number of scripts uploaded in one batch.
MaxScripts == 2

RECURSIVE Join(_, _)
\* The words with the runs `sep` between them.
Join(words, sep) ==
    IF Len(words) = 0 THEN <<>>
    ELSE IF Len(words) = 1 THEN <<Run(words[1], 1)>>
    ELSE <<Run(words[1], 1)>> \o sep \o Join(Tail(words), sep)

\* How a marker phrase can stand in a transcript.
MarkerText(words, form) ==
    CASE form = "exact"  -> Join(words, <<Run("sp", 1)>>)
      [] form = "spaced" -> Join(words, <<Run("sp", 2)>>)
      [] form = "broken" -> Join(words, <<Run("nl", 1), Run("sp", 1)>>)
      [] form = "noisy"  -> Join(words, <<Run("g", 1)>>)
      [] form = "key3"   -> Join(First3(words), <<Run("sp", 1), Run("p", 2), Run("sp", 1)>>)
      [] form = "two"    -> Join(SubSeq(words, 1, 2), <<Run("sp", 1)>>)
      [] form = "absent" -> <<>>

\* The forms in which find_answer_by_marker locates the marker.
Located == {"exact", "spaced", "broken", "noisy", "key3"}

\* k characters of class c, no run for k = 0.
Chars(c, k) == IF k = 0 THEN <<>> ELSE <<Run(c, k)>>

Pads == {Chars("sp", k) : k \in 0..MaxPad} \cup {Chars("nl", k) : k \in 0..MaxPad}

-----------------------------------------------------------------------------
\* Specification of find_answer_by_marker as a function of its arguments

\* Answer bodies: around the degenerate length 5, around the cap of 1000, with
\* inner whitespace and with garbage.
SegBodies ==
    {Chars("p", k) : k \in {0, 4, 5, 6, 999, 1000, 1001}}
    \cup {<<Run("p", 3), Run("sp", 1), Run("p", 2)>>,
          <<Run("g", 2), Run("p", 2), Run("nl", 995), Run("p", 3)>>}

SegInputs ==
    {[q      |-> i,
      last   |-> last,
      mform  |-> mf,
      before |-> pre,
      after  |-> pad1 \o body \o pad2
                 \o MarkerText(marker_words(markers[IF i < 3 THEN i + 1 ELSE 1]), nf)
                 \o tail] :
        i \in 1..3, last \in BOOLEAN,
        mf \in Located \cup {"two", "absent"},
        pre \in {<<>>, <<Run("p", 7), Run("nl", 1)>>},
        pad1 \in Pads, pad2 \in Pads, body \in SegBodies,
        nf \in {"exact", "spaced", "key3", "absent"},
        tail \in {<<>>, PAGE_BREAK}}

\* The transcript of a segmenter input.
SegText(a) == a.before \o MarkerText(marker_words(markers[a.q]), a.mform) \o a.after

\* The next marker phrase passed: the next question's, or None for the last
\* question (line 250).
SegNext(a) ==
    IF a.last \/ a.q = Len(markers) THEN None ELSE marker_words(markers[a.q + 1])

Idle ==
    /\ uploaded = <<>> /\ results = <<>> /\ session = None
    /\ review_needed = <<>> /\ excel = None

InitSegment ==
    /\ arg \in SegInputs
    /\ ret = None
    /\ pc = "call"
    /\ Idle

CallSegment ==
    /\ pc = "call"
    /\ ret' = Some(find_answer_by_marker(SegText(arg), marker_words(markers[arg.q]),
                                         SegNext(arg)))
    /\ pc' = "return"
    /\ UNCHANGED <<arg, uploaded, results, session, review_needed, excel>>

NextSegment == CallSegment

SpecSegment == InitSegment /\ [][NextSegment]_vars

-----------------------------------------------------------------------------
\* Specification of assess_ocr_quality as a function of its arguments

\* Fragments of a prose run and a garbage run in either order (every noise
\* ratio from 0 to 1 at every length up to 2 MaxRun), the 100-character
\* fragments with 30 and with 31 noise characters, or no fragment.
QualFragments ==
    {None}
    \cup {Some(Chars("p", a) \o Chars("g", b)) : a \in 0..MaxRun, b \in 0..MaxRun}
    \cup {Some(Chars("g", b) \o Chars("p", a)) : a \in 0..MaxRun, b \in 0..MaxRun}
    \cup {Some(<<Run("p", 70), Run("g", 30)>>), Some(<<Run("p", 69), Run("g", 31)>>),
          Some(<<Run("p", 35), Run("g", 30), Run("sp", 35)>>)}

QualInputs ==
    {[answer_text |-> f, min_length |-> m] :
        f \in QualFragments, m \in (0..MaxMinLen) \cup {min_length("Q1")}}

InitQuality ==
    /\ arg \in QualInputs
    /\ ret = None
    /\ pc = "call"
    /\ Idle

CallAssess ==
    /\ pc = "call"
    /\ ret' = Some(assess_ocr_quality(arg.answer_text, arg.min_length))
    /\ pc' = "return"
    /\ UNCHANGED <<arg, uploaded, results, session, review_needed, excel>>

NextQuality == CallAssess

SpecQuality == InitQuality /\ [][NextQuality]_vars

-----------------------------------------------------------------------------
\* Specification of extract_name_reg_from_top as a function of the image

\* Outcomes of the name patterns.  The labelled patterns 1 and 2 capture a
\* letter followed by at least one more character, which strip() may remove:
\* 1 character or more.  Pattern 2 matches only where pattern 1 matches too
\* ("Student Name: x" contains "Name: x").  Pattern 3 captures two capitalised
\* words: 5 characters or more.
NameOutcomes ==
    {o \in {<<n1, n2, n3>> :
                n1 \in {None} \cup {Some(k) : k \in 1..MaxNameLen},
                n2 \in {None} \cup {Some(k) : k \in 1..MaxNameLen},
                n3 \in {None} \cup {Some(k) : k \in 5..MaxNameLen}} :
        o[2] # None => o[1] # None}

\* Outcomes of the identifier patterns: the labelled patterns 1 to 3 capture
\* one digit or more, pattern 4 a run of 6 to 10 digits.
RegOutcomes ==
    {<<r1, r2, r3, r4>> :
        r1 \in {None} \cup {Some(k) : k \in 1..MaxRegLen},
        r2 \in {None} \cup {Some(k) : k \in 1..MaxRegLen},
        r3 \in {None} \cup {Some(k) : k \in 1..MaxRegLen},
        r4 \in {None} \cup {Some(k) : k \in {6, 10}}}

Images ==
    {None}
    \cup {Some([raises |-> TRUE, names |-> <<None, None, None>>,
                regs |-> <<None, None, None, None>>])}
    \cup {Some([raises |-> FALSE, names |-> n, regs |-> r]) :
             n \in NameOutcomes, r \in RegOutcomes}

InitIdentity ==
    /\ arg \in Images
    /\ ret = None
    /\ pc = "call"
    /\ Idle

CallExtract ==
    /\ pc = "call"
    /\ ret' = Some(extract_name_reg_from_top(arg))
    /\ pc' = "return"
    /\ UNCHANGED <<arg, uploaded, results, session, review_needed, excel>>

NextIdentity == CallExtract

SpecIdentity == InitIdentity /\ [][NextIdentity]_vars

-----------------------------------------------------------------------------
\* Specification of process_single_script as a function of the uploaded file

\* What follows a question's marker on the page: nothing, a few words, a full
\* answer (44 characters is a rounding tie of the grader, 250 is beyond its
\* length scale), or text that is mostly or exactly 30% garbage.
PageBodies ==
    {<<>>,
     <<Run("sp", 1), Run("p", 5), Run("nl", 1)>>,
     <<Run("sp", 1), Run("p", 10), Run("nl", 1)>>,
     <<Run("sp", 1), Run("p", 44), Run("nl", 1)>>,
     <<Run("nl", 1), Run("p", 120), Run("sp", 1), Run("p", 129), Run("nl", 1)>>,
     <<Run("sp", 1), Run("p", 20), Run("g", 30), Run("nl", 1)>>,
     <<Run("sp", 1), Run("p", 28), Run("g", 12), Run("nl", 1)>>}

\* The part of a page that belongs to question i: nothing, or the marker as
\* printed or as the recognizer garbles it, followed by a body.
PageSections(i) ==
    {<<>>} \cup
    {MarkerText(marker_words(markers[i]), mf) \o body :
        mf \in {"exact", "noisy"}, body \in PageBodies}

\* Headers of a first page: name and identifier both read, only a short name
\* read, nothing read, the recognizer failing.
Headers ==
    {[raises |-> FALSE, names |-> <<Some(5), None, None>>,
      regs |-> <<Some(4), None, None, None>>],
     [raises |-> FALSE, names |-> <<Some(2), None, None>>,
      regs |-> <<None, None, None, None>>],
     [raises |-> FALSE, names |-> <<None, None, None>>,
      regs |-> <<None, None, None, None>>],
     [raises |-> TRUE, names |-> <<None, None, None>>,
      regs |-> <<None, None, None, None>>]}

\* One-page scripts, a script whose answers are spread over two pages, a
\* script without pages, and a file that cannot be converted.
Pdfs ==
    {[corrupt |-> FALSE, pages |-> <<[text |-> s1 \o s2 \o s3, top |-> h]>>] :
        s1 \in PageSections(1), s2 \in PageSections(2), s3 \in PageSections(3),
        h \in {x \in Headers : x.regs[1] = None /\ ~x.raises}}
    \cup {[corrupt |-> FALSE,
           pages |-> <<[text |-> s1, top |-> h], [text |-> s3, top |-> h]>>] :
             s1 \in PageSections(1), s3 \in PageSections(3), h \in Headers}
    \cup {[corrupt |-> FALSE, pages |-> <<>>], [corrupt |-> TRUE, pages |-> <<>>]}

InitScript ==
    /\ arg \in {[name |-> 1, pdf |-> d] : d \in Pdfs}
    /\ ret = None
    /\ pc = "call"
    /\ Idle

CallProcess ==
    /\ pc = "call"
    /\ ret' = Some(process_single_script(arg))
    /\ pc' = "return"
    /\ UNCHANGED <<arg, uploaded, results, session, review_needed, excel>>

NextScript == CallProcess

SpecScript == InitScript /\ [][NextScript]_vars

-----------------------------------------------------------------------------
\* Specification of the pipeline on a given transcript (lines 233-294): the
\* Q1 marker, a prose answer, the Q2 marker, a prose answer, and then either
\* the end of the transcript or the page break extract_text_from_pdf appends.

ScenarioInputs ==
    {[q1_len |-> a, q2_len |-> b, tail |-> tl,
      seps   |-> <<s1, s2, s3>>] :
        a \in {39, 40, 80, 200}, b \in {4, 5, 6, 39, 40},
        s1 \in Pads, s2 \in Pads, s3 \in Pads,
        tl \in {<<>>, PAGE_BREAK}}

ScenarioText(a) ==
    MarkerText(marker_words("Q1"), "exact") \o a.seps[1] \o Chars("p", a.q1_len)
    \o a.seps[2]
    \o MarkerText(marker_words("Q2"), "exact") \o a.seps[3] \o Chars("p", a.q2_len)
    \o a.tail

InitScenario ==
    /\ arg \in ScenarioInputs
    /\ ret = None
    /\ pc = "call"
    /\ Idle

CallPipeline ==
    /\ pc = "call"
    /\ ret' = Some(script_result(1, ScenarioText(arg), None))
    /\ pc' = "return"
    /\ UNCHANGED <<arg, uploaded, results, session, review_needed, excel>>

NextScenario == CallPipeline

SpecScenario == InitScenario /\ [][NextScenario]_vars

-----------------------------------------------------------------------------
\* Specification of a batch run of main (lines 394-460)

\* Scripts for the batch: three good answers under each kind of header, and
\* with a readable header a short second answer, three short answers, a page
\* without markers; a script without pages and a file that cannot be converted.
GoodAnswer == <<Run("sp", 1), Run("p", 80), Run("nl", 1)>>

ShortAnswer == <<Run("sp", 1), Run("p", 10), Run("nl", 1)>>

AllShortText ==
    MarkerText(marker_words("Q1"), "exact") \o ShortAnswer
    \o MarkerText(marker_words("Q2"), "exact") \o ShortAnswer
    \o MarkerText(marker_words("Q3"), "exact") \o ShortAnswer

BatchText(b2) ==
    MarkerText(marker_words("Q1"), "exact") \o GoodAnswer
    \o MarkerText(marker_words("Q2"), "exact") \o b2
    \o MarkerText(marker_words("Q3"), "exact") \o GoodAnswer

BatchPdfs ==
    {[corrupt |-> FALSE, pages |-> <<[text |-> BatchText(GoodAnswer), top |-> h]>>] :
        h \in Headers}
    \cup {[corrupt |-> FALSE, pages |-> <<[text |-> t, top |-> h]>>] :
             t \in {BatchText(ShortAnswer), AllShortText, <<Run("p", 30)>>},
             h \in {x \in Headers : x.names[1] = Some(5)}}
    \cup {[corrupt |-> FALSE, pages |-> <<>>], [corrupt |-> TRUE, pages |-> <<>>]}

\* The uploaded files, named by their position in the upload.
Uploads ==
    UNION {{[i \in 1..n |-> [name |-> i, pdf |-> f[i]]] : f \in [1..n -> BatchPdfs]} :
              n \in 0..MaxScripts}

Init ==
    /\ uploaded \in Uploads
    /\ results = <<>>
    /\ session = None
    /\ review_needed = <<>>
    /\ excel = None
    /\ pc = "idle"
    /\ arg = <<>>
    /\ ret = None

\* Lines 394-406: files are uploaded and the button is pressed.
ClickProcess ==
    /\ pc = "idle"
    /\ uploaded # <<>>
    /\ results' = <<>>
    /\ pc' = "loop"
    /\ UNCHANGED <<arg, ret, uploaded, session, review_needed, excel>>

\* Lines 408-412: one iteration of the loop over uploaded_files.
ProcessNext ==
    /\ pc = "loop"
    /\ Len(results) < Len(uploaded)
    /\ results' = Append(results, process_single_script(uploaded[Len(results) + 1]))
    /\ UNCHANGED <<arg, ret, uploaded, pc, session, review_needed, excel>>

\* Line 415: the loop is over, the results go to the session state.
StoreResults ==
    /\ pc = "loop"
    /\ Len(results) = Len(uploaded)
    /\ session' = Some(results)
    /\ pc' = "display"
    /\ UNCHANGED <<arg, ret, uploaded, results, review_needed, excel>>

\* Lines 419-456: the preview and the on-screen review list.
ShowResults ==
    /\ pc = "display"
    /\ session # None /\ session[1] # <<>>
    /\ review_needed' = ReviewNeeded(session[1])
    /\ pc' = "excel"
    /\ UNCHANGED <<arg, ret, uploaded, results, session, excel>>

\* Line 460: the workbook is generated.
GenerateExcel ==
    /\ pc = "excel"
    /\ excel' = Some(generate_excel(session[1]))
    /\ pc' = "done"
    /\ UNCHANGED <<arg, ret, uploaded, results, session, review_needed>>

Next == ClickProcess \/ ProcessNext \/ StoreResults \/ ShowResults \/ GenerateExcel

Spec == Init /\ [][Next]_vars

-----------------------------------------------------------------------------
\* Claims about process_single_script (SpecScript)

Returned == pc = "return" /\ ret # None

\* A script with a transcript has been processed.
Processed == Returned /\ extract_text_from_pdf(arg.pdf).text # None

Verdicts(r) == {r.q[q].ocr_status : q \in DOMAIN r.q}

NeedsReview(r, q) == r.q[q].ocr_status # "OK"

Readable(r, q) == r.q[q].ocr_status # "UNREADABLE"

\* C1 as stated: whenever the disposition is PARTIAL_MANUAL, some but not all
\* questions need review and at least one question is readable.
C1_SomeButNotAll ==
    Processed /\ ret[1].script_status = "PARTIAL_MANUAL" =>
        /\ \E q \in DOMAIN ret[1].q : NeedsReview(ret[1], q)
        /\ \E q \in DOMAIN ret[1].q : ~NeedsReview(ret[1], q)
        /\ \E q \in DOMAIN ret[1].q : Readable(ret[1], q)

\* C1 amended: whenever the disposition is PARTIAL_MANUAL, at least one
\* question needs review (possibly all of them) and at least one question is
\* readable.
C1_SomeNeedReview ==
    Processed /\ ret[1].script_status = "PARTIAL_MANUAL" =>
        /\ \E q \in DOMAIN ret[1].q : NeedsReview(ret[1], q)
        /\ \E q \in DOMAIN ret[1].q : Readable(ret[1], q)

\* A PARTIAL_MANUAL script in which every question is TOO_SHORT or SUSPECT_OCR.
C1_Witness ==
    /\ Processed
    /\ ret[1].script_status = "PARTIAL_MANUAL"
    /\ Verdicts(ret[1]) = {"TOO_SHORT", "SUSPECT_OCR"}

\* C2: if every verdict is OK the disposition is AUTO_COMPLETE, and if every
\* verdict is UNREADABLE the disposition is FULL_MANUAL.
C2_Monotone ==
    Processed =>
        /\ Verdicts(ret[1]) = {"OK"} => ret[1].script_status = "AUTO_COMPLETE"
        /\ Verdicts(ret[1]) = {"UNREADABLE"} => ret[1].script_status = "FULL_MANUAL"

\* A script whose three answers are all OK.
C2_Witness ==
    /\ Processed
    /\ Verdicts(ret[1]) = {"OK"}
    /\ ret[1].script_status = "AUTO_COMPLETE"

\* C5: in every question result the review flag is NEEDS_REVIEW exactly when
\* the verdict is not OK, and OK exactly when the verdict is OK.
C5_FlagIffNotOk ==
    Processed =>
        \A q \in DOMAIN ret[1].q :
            /\ ret[1].q[q].ai_flag = "NEEDS_REVIEW" <=> ret[1].q[q].ocr_status # "OK"
            /\ ret[1].q[q].ai_flag = "OK" <=> ret[1].q[q].ocr_status = "OK"

\* A script with a flagged question of every failing verdict and one that is OK.
C5_Witness ==
    /\ Processed
    /\ \E q1, q2 \in DOMAIN ret[1].q :
          /\ ret[1].q[q1].ocr_status = "OK" /\ ret[1].q[q1].ai_flag = "OK"
          /\ ret[1].q[q2].ocr_status = "SUSPECT_OCR"
          /\ ret[1].q[q2].ai_flag = "NEEDS_REVIEW"

\* The stored final score of a question as a number; a blank cell counts 0.
FinalScore(r, q) == IF r.q[q].final_score = None THEN 0 ELSE r.q[q].final_score[1]

\* A pass of the loop that graded a question with `score` tenths.
ScoredPass(q, score) ==
    [q |-> q, quality |-> <<"OK", "PASS">>, grade |-> <<Some(score), "AUTO_HIGH">>]

\* C7: the total score is the sum of the per-question final scores, a question
\* without a score adding nothing, rounded to one decimal; and scores 4.5, 3.0
\* and 6.8 give 14.3.
C7_TotalIsSum ==
    /\ Processed =>
          ret[1].total_score =
              Round1(FinalScore(ret[1], "Q1") + FinalScore(ret[1], "Q2")
                     + FinalScore(ret[1], "Q3"), 10, FALSE)
    /\ TotalScore(<<ScoredPass("Q1", 45), ScoredPass("Q2", 30), ScoredPass("Q3", 68)>>)
          = 143

\* A script with an OK answer, a low-scored answer and an unreadable one.
C7_Witness ==
    /\ Processed
    /\ \E q1, q2, q3 \in DOMAIN ret[1].q :
          /\ ret[1].q[q1].ai_status = "AUTO_HIGH"
          /\ ret[1].q[q2].ai_status = "AUTO_LOW"
          /\ ret[1].q[q3].final_score = None
    /\ ret[1].total_score > 0

-----------------------------------------------------------------------------
\* Claim about the end-to-end scenario (SpecScenario)

\* The scenario's transcript: the Q1 marker, 80 characters of prose, the Q2
\* marker, 5 characters of prose, and then `tail`.
Scenario(tail) ==
    /\ Returned
    /\ arg.q1_len = 80 /\ arg.q2_len = 5 /\ arg.tail = tail

\* C3 as stated: on the scenario's transcript ending after the 5 characters,
\* Q1 is OK, Q2 is TOO_SHORT, Q3 has no fragment and is UNREADABLE, and the
\* disposition is PARTIAL_MANUAL.
C3_Q2TooShort ==
    Scenario(<<>>) =>
        /\ ret[1].q["Q1"].ocr_status = "OK"
        /\ ret[1].q["Q2"].ocr_status = "TOO_SHORT"
        /\ Answer(ScenarioText(arg), 3) = None
        /\ ret[1].q["Q3"].ocr_status = "UNREADABLE"
        /\ ret[1].script_status = "PARTIAL_MANUAL"

\* C3 amended: on that transcript Q1 is OK, Q2 has no fragment (a span of 5
\* characters is degenerate) and is UNREADABLE, Q3 has no fragment and is
\* UNREADABLE, and the disposition is PARTIAL_MANUAL; Q2 is TOO_SHORT when the
\* transcript goes on with the page break that follows every page.
C3_Q2Unreadable ==
    /\ Scenario(<<>>) =>
          /\ ret[1].q["Q1"].ocr_status = "OK"
          /\ Answer(ScenarioText(arg), 2) = None
          /\ ret[1].q["Q2"].ocr_status = "UNREADABLE"
          /\ Answer(ScenarioText(arg), 3) = None
          /\ ret[1].q["Q3"].ocr_status = "UNREADABLE"
          /\ ret[1].script_status = "PARTIAL_MANUAL"
    /\ Scenario(PAGE_BREAK) =>
          /\ ret[1].q["Q1"].ocr_status = "OK"
          /\ ret[1].q["Q2"].ocr_status = "TOO_SHORT"
          /\ ret[1].q["Q3"].ocr_status = "UNREADABLE"
          /\ ret[1].script_status = "PARTIAL_MANUAL"

\* The scenario has run: markers and answers separated by single spaces.
C3_Witness ==
    /\ Scenario(<<>>)
    /\ arg.seps = <<Chars("sp", 1), Chars("sp", 1), Chars("sp", 1)>>
    /\ ret[1].script_status = "PARTIAL_MANUAL"

-----------------------------------------------------------------------------
\* Claim about assess_ocr_quality (SpecQuality)

\* C6: no fragment gives (UNREADABLE, MISSING_TEXT); else a fragment shorter
\* than min_length gives (TOO_SHORT, LENGTH_CHECK) whatever its noise; else a
\* noise ratio strictly above 0.3 gives (SUSPECT_OCR, HIGH_GARBAGE); else
\* (OK, PASS), in particular at a ratio of exactly 0.3.
C6_CheckOrder ==
    Returned =>
        LET f == arg.answer_text
            m == arg.min_length
        IN  /\ f = None => ret[1] = <<"UNREADABLE", "MISSING_TEXT">>
            /\ f # None /\ TextLen(f[1]) < m => ret[1] = <<"TOO_SHORT", "LENGTH_CHECK">>
            /\ f # None /\ TextLen(f[1]) >= m
                  /\ 10 * GarbageCount(f[1]) > 3 * TextLen(f[1])
               => ret[1] = <<"SUSPECT_OCR", "HIGH_GARBAGE">>
            /\ f # None /\ TextLen(f[1]) >= m
                  /\ 10 * GarbageCount(f[1]) <= 3 * TextLen(f[1])
               => ret[1] = <<"OK", "PASS">>

\* 30 noise characters out of 100, at the configured min_length: OK.
C6_Witness ==
    /\ Returned
    /\ arg.answer_text # None
    /\ TextLen(arg.answer_text[1]) = 100
    /\ GarbageCount(arg.answer_text[1]) = 30
    /\ arg.min_length = 40
    /\ ret[1] = <<"OK", "PASS">>

-----------------------------------------------------------------------------
\* Claim about extract_name_reg_from_top (SpecIdentity)

\* The first outcome in list order that satisfies Good, as the string it
\* captures; None if no outcome does.
FirstGood(outs, Good(_)) ==
    IF \E i \in 1..Len(outs) : outs[i] # None /\ Good(outs[i][1])
    THEN Bind(Least({i \in 1..Len(outs) : outs[i] # None /\ Good(outs[i][1])}),
              LAMBDA i : Some(Str(i, outs[i][1])))
    ELSE None

LongName(n) == n > 3

LongReg(n) == n >= 4

\* C9: the name returned is the capture of the first name pattern whose
\* cleaned capture exceeds 3 characters, the identifier that of the first
\* identifier pattern with at least 4 digits; so a name that is reported has
\* more than 3 characters, an identifier that is reported at least 4 digits,
\* and a field without such a capture is absent.
C9_OnlyLongCaptures ==
    Returned /\ arg # None /\ ret[1].status \in {"OK", "PARTIAL", "NEEDS_MANUAL_FIX"} =>
        /\ ret[1].name = FirstGood(arg[1].names, LongName)
        /\ ret[1].reg = FirstGood(arg[1].regs, LongReg)
        /\ ret[1].name # None => ret[1].name[1].len > 3
        /\ ret[1].reg # None => ret[1].reg[1].len >= 4

-----------------------------------------------------------------------------
\* Claim about find_answer_by_marker (SpecSegment)

\* Where the marker of a segmenter input ends in its transcript.
MarkerEnd(a) ==
    TextLen(a.before) + TextLen(MarkerText(marker_words(markers[a.q]), a.mform))

\* The trimmed span of a last-question call: from the end of the marker to
\* min(start + 1000, end of transcript).
LastSpan(a) ==
    Strip(Slice(SegText(a), MarkerEnd(a),
                Min(MarkerEnd(a) + 1000, TextLen(SegText(a)))))

Trimmed(t) == t # <<>> /\ ~IsWs(t[1]) /\ ~IsWs(t[Len(t)])

\* C10: the result is None or a fragment without leading or trailing
\* whitespace and with more than 5 characters; it is None when the marker is
\* not located; and for a last-question call it is the trimmed span from the
\* end of the marker to min(start + 1000, end of transcript), None if that
\* has 5 or fewer characters, so never more than 1000 characters.
C10_TrimmedSpan ==
    Returned =>
        /\ ret[1] # None => Trimmed(ret[1][1]) /\ TextLen(ret[1][1]) > 5
        /\ MarkerMatch(SegText(arg), marker_words(markers[arg.q])) = NoMatch
              => ret[1] = None
        /\ arg.mform \notin Located /\ arg.q # 2 => ret[1] = None
        /\ arg.mform \in Located /\ SegNext(arg) = None =>
              /\ TextLen(LastSpan(arg)) <= 5 => ret[1] = None
              /\ TextLen(LastSpan(arg)) > 5 => ret[1] = Some(LastSpan(arg))
              /\ ret[1] # None => TextLen(ret[1][1]) <= 1000

\* A last-question call on a transcript that goes on for more than 1000
\* characters after the marker: the fragment has exactly 1000 characters.
C10_Witness ==
    /\ Returned
    /\ SegNext(arg) = None
    /\ arg.mform \in Located
    /\ TextLen(SegText(arg)) > MarkerEnd(arg) + 1000
    /\ ret[1] # None
    /\ TextLen(ret[1][1]) = 1000

-----------------------------------------------------------------------------
\* Claims about the batch (Spec)

\* C4: entry i of the result list is the result of uploaded script i; a script
\* without a transcript has disposition PDF_ERROR and no per-question field;
\* and once the loop is over the list has exactly one entry per script.
C4_OneEntryPerScript ==
    /\ Len(results) <= Len(uploaded)
    /\ \A i \in 1..Len(results) :
          /\ results[i].script_name = uploaded[i].name
          /\ extract_text_from_pdf(uploaded[i].pdf).text = None =>
                /\ results[i].script_status = "PDF_ERROR"
                /\ DOMAIN results[i].q = {}
          /\ extract_text_from_pdf(uploaded[i].pdf).text # None =>
                results[i].script_status # "PDF_ERROR"
    /\ pc \in {"display", "excel", "done"} =>
          /\ session = Some(results)
          /\ Len(results) = Len(uploaded)

\* A batch whose first script fails transcription and whose second does not.
C4_Witness ==
    /\ pc = "display"
    /\ Len(results) = 2
    /\ results[1].script_status = "PDF_ERROR"
    /\ results[2].script_status = "AUTO_COMPLETE"

\* The script is in the review list.
Listed(name, list) == \E i \in 1..Len(list) : list[i].script_name = name

\* The workbook has been built from the batch.
Built == pc = "done" /\ excel # None /\ excel[1].raised = NoStatus

\* C8 as stated: the review list holds exactly the scripts whose disposition
\* is not AUTO_COMPLETE or whose total score is zero.
C8_ReviewSubset ==
    Built =>
        \A i \in 1..Len(session[1]) :
            Listed(session[1][i].script_name, excel[1].review_list)
            <=> \/ session[1][i].script_status # "AUTO_COMPLETE"
                \/ session[1][i].total_score = 0

\* C8 amended: the workbook's review list holds exactly the scripts whose
\* disposition is not AUTO_COMPLETE, whose total score is zero or whose
\* identity status is NEEDS_MANUAL_FIX or PARTIAL; no list is built (KeyError)
\* exactly when no script of the batch has a transcript; and the on-screen
\* list holds exactly the scripts whose disposition is not AUTO_COMPLETE.
C8_ReviewSubsetWithId ==
    pc = "done" =>
        /\ excel[1].raised = NoStatus =>
              \A i \in 1..Len(session[1]) :
                  Listed(session[1][i].script_name, excel[1].review_list)
                  <=> \/ session[1][i].script_status # "AUTO_COMPLETE"
                      \/ session[1][i].total_score = 0
                      \/ session[1][i].id_status \in {"NEEDS_MANUAL_FIX", "PARTIAL"}
        /\ excel[1].raised # NoStatus <=>
              \A i \in 1..Len(session[1]) : session[1][i].script_status = "PDF_ERROR"
        /\ \A i \in 1..Len(session[1]) :
              Listed(session[1][i].script_name, review_needed)
              <=> session[1][i].script_status # "AUTO_COMPLETE"

\* A batch with a PDF_ERROR script and an AUTO_COMPLETE script with a non-zero
\* total and a partial identity, both in the workbook's review list.
C8_Witness ==
    /\ Built
    /\ \E i, j \in 1..Len(session[1]) :
          /\ session[1][i].script_status = "PDF_ERROR"
          /\ session[1][j].script_status = "AUTO_COMPLETE"
          /\ session[1][j].total_score # 0
          /\ session[1][j].id_status = "PARTIAL"
          /\ Listed(session[1][i].script_name, excel[1].review_list)
          /\ Listed(session[1][j].script_name, excel[1].review_list)

====
